---- MODULE Spec2Model ----
(***************************************************************************)
(* blacktie/utils/calls.py: resolution, chaining and execution of the four *)
(* pipeline stage calls (tophat -> cufflinks -> cuffmerge -> cuffdiff).    *)
(*                                                                         *)
(* A Python string is a sequence of atomic tokens: "/b/tophat_A" is        *)
(* <<"/", "b", "/", "tophat", "_", "A">>.  '%' formatting and join are      *)
(* concatenation, rstrip('/') and split('/') work on the "/" tokens.        *)
(* Python's False and True are the one-token values PyFalse and PyTrue,     *)
(* which no configuration string equals.                                    *)
(***************************************************************************)
EXTENDS Integers, Sequences, FiniteSets, TLC

VARIABLES
    yargs,          \* the parsed configuration tree (read-only during a run)
    call_records,   \* yargs.call_records: call id -> out_dir of the recorded call object
    disk,           \* the filesystem: directory -> (file name -> content)
    logs,           \* the log file followed: call id -> sequence of written entries
    cur,            \* the stage call object under construction / execution
    events,         \* what the current call did to its collaborators, in order
    run_mode,       \* the mode the driver passes to every constructor of this run
    queue_pos,      \* position of the driver in the fixed stage order
    last,           \* history: the latest successful construction and the Store it saw
    ncalls          \* number of constructor invocations so far

vars == <<yargs, call_records, disk, logs, cur, events, run_mode, queue_pos, last, ncalls>>

(* Bounds of the model *)
MaxCalls == 2

(***************************************************************************)
(* Python values and string helpers                                        *)
(***************************************************************************)
FROM == <<"from_conditions">>
PyFalse == <<"$False">>
PyTrue == <<"$True">>
PyNone == <<"$None">>

RECURSIVE Rstrip(_)
Rstrip(s) ==
    IF s # <<>> /\ s[Len(s)] = "/" THEN Rstrip(SubSeq(s, 1, Len(s) - 1)) ELSE s

RECURSIVE Join(_, _)
Join(list, sep) ==
    IF list = <<>> THEN <<>>
    ELSE IF Len(list) = 1 THEN list[1]
    ELSE list[1] \o sep \o Join(Tail(list), sep)

RECURSIVE SplitFrom(_, _, _)
SplitFrom(s, word, acc) ==
    IF s = <<>> THEN Append(acc, word)
    ELSE IF Head(s) = "/" THEN SplitFrom(Tail(s), <<>>, Append(acc, word))
    ELSE SplitFrom(Tail(s), Append(word, Head(s)), acc)

Split(s) == SplitFrom(s, <<>>, <<>>)

RECURSIVE Replace(_, _, _)
Replace(s, old, new) ==
    IF s = <<>> THEN <<>>
    ELSE (IF Head(s) = old THEN <<new>> ELSE <<Head(s)>>) \o Replace(Tail(s), old, new)

Abspath(p) ==
    LET parts == SelectSeq(Split(p), LAMBDA w : w # <<>>)
    IN  <<"/">> \o Join(parts, <<"/">>)

Str(v) ==
    IF v = PyTrue THEN <<"True">> ELSE IF v = PyFalse THEN <<"False">>
    ELSE IF v = PyNone THEN <<"None">> ELSE v

(***************************************************************************)
(* CPython 2.7 dict: an open-addressing table whose iteration order is the *)
(* slot order.  PyProbeN[k] is the probe sequence of key k in a table of N *)
(* slots (from the string hash of k, 64-bit build).                        *)
(***************************************************************************)
PyProbe8 ==
    "o" :> <<7, 6, 2, 8, 8, 2>> @@
    "G" :> <<7, 6, 1, 4, 1, 5>> @@
    "p" :> <<2, 8, 8, 7, 5, 5>> @@
    "positional_args" :> <<6, 8, 5, 6, 5, 8>> @@
    "GTF-guide" :> <<4, 4, 4, 8, 4, 5>> @@
    "frag-bias-correct" :> <<3, 6, 4, 7, 5, 7>> @@
    "mask-file" :> <<3, 6, 8, 5, 6, 3>> @@
    "ref-gtf" :> <<3, 6, 2, 3, 3, 2>> @@
    "ref-sequence" :> <<4, 4, 2, 6, 8, 5>> @@
    "labels" :> <<4, 4, 1, 3, 7, 1>> @@
    "no-coverage-search" :> <<4, 4, 3, 8, 2, 4>> @@
    "library-type" :> <<3, 6, 8, 1, 8, 1>>
PyProbe16 ==
    "o" :> <<15, 6, 2, 8, 16, 10>> @@
    "G" :> <<7, 6, 1, 4, 1, 13>> @@
    "p" :> <<2, 8, 8, 15, 5, 13>> @@
    "positional_args" :> <<14, 16, 5, 14, 5, 16>> @@
    "GTF-guide" :> <<4, 4, 4, 16, 12, 13>> @@
    "frag-bias-correct" :> <<11, 14, 12, 15, 13, 15>> @@
    "mask-file" :> <<3, 14, 8, 5, 14, 3>> @@
    "ref-gtf" :> <<3, 14, 10, 3, 3, 2>> @@
    "ref-sequence" :> <<4, 4, 2, 14, 16, 5>> @@
    "labels" :> <<12, 4, 1, 11, 7, 1>> @@
    "no-coverage-search" :> <<12, 4, 11, 16, 10, 4>> @@
    "library-type" :> <<11, 14, 16, 1, 8, 9>>
PyProbe32 ==
    "o" :> <<15, 22, 2, 8, 32, 10>> @@
    "G" :> <<7, 6, 17, 4, 17, 13>> @@
    "p" :> <<18, 8, 8, 15, 5, 29>> @@
    "positional_args" :> <<30, 16, 5, 14, 21, 32>> @@
    "GTF-guide" :> <<4, 20, 4, 32, 28, 13>> @@
    "frag-bias-correct" :> <<11, 30, 12, 31, 13, 15>> @@
    "mask-file" :> <<19, 14, 24, 21, 30, 19>> @@
    "ref-gtf" :> <<19, 14, 10, 19, 3, 18>> @@
    "ref-sequence" :> <<20, 20, 18, 14, 32, 5>> @@
    "labels" :> <<12, 4, 17, 11, 7, 1>> @@
    "no-coverage-search" :> <<28, 4, 27, 16, 10, 20>> @@
    "library-type" :> <<11, 30, 32, 17, 24, 9>>

PyProbe(size, k) ==
    IF size = 8 THEN PyProbe8[k] ELSE IF size = 16 THEN PyProbe16[k] ELSE PyProbe32[k]

PyEmpty(size) == [i \in 1..size |-> ""]

\* The operators below bind their table argument with "t \in {table}", so
\* that a table built by a chain of insertions is built once.
FirstFree(t, k) ==
    LET pr == PyProbe(Len(t), k)
        free == {j \in 1..Len(pr) : t[pr[j]] = ""}
    IN  pr[CHOOSE j \in free : \A j2 \in free : j <= j2]

\* insertdict: the key goes into the first free slot of its probe sequence
PyPlace(table, k) ==
    CHOOSE r \in {[t EXCEPT ![FirstFree(t, k)] = k] : t \in {table}} : TRUE

PyKeys(table) == SelectSeq(table, LAMBDA k : k # "")

RECURSIVE PyPlaceAll(_, _)
PyPlaceAll(table, ks) ==
    IF ks = <<>> THEN table ELSE PyPlaceAll(PyPlace(table, Head(ks)), Tail(ks))

\* dictresize: the smallest table of 8, 16, 32 slots larger than minused
PyResize(table, minused) ==
    LET size == IF minused < 8 THEN 8 ELSE IF minused < 16 THEN 16 ELSE 32
    IN  PyPlaceAll(PyEmpty(size), PyKeys(table))

Grown(t) ==
    LET used == Len(PyKeys(t))
    IN  IF used * 3 >= Len(t) * 2 THEN PyResize(t, 4 * used) ELSE t

\* PyDict_SetItem: a new key is placed and the table grows when two thirds full
PySetItem(table, k) ==
    CHOOSE r \in {IF \E i \in 1..Len(t) : t[i] = k THEN t ELSE Grown(PyPlace(t, k)) :
                    t \in {table}} : TRUE

RECURSIVE PySetAll(_, _)
PySetAll(table, ks) ==
    IF ks = <<>> THEN table ELSE PySetAll(PySetItem(table, Head(ks)), Tail(ks))

\* dict(other): PyDict_Merge into a new dict, presized for six or more keys
PyCopy(table) ==
    CHOOSE r \in {PyPlaceAll(IF Len(ks) * 3 >= 16 THEN PyEmpty(16) ELSE PyEmpty(8), ks) :
                    ks \in {PyKeys(table)}} : TRUE

(***************************************************************************)
(* The configuration tree (yargs) and the condition records                *)
(***************************************************************************)
Stages == <<"tophat", "cufflinks", "cuffmerge", "cuffdiff">>
Modes == {"analyze", "dry_run", "qsub_script"}
GroupStages == {"cuffmerge", "cuffdiff"}
ConsensusKeys == {"gtf_annotation", "genome_seq", "mask_file"}

Without(f, k) == [x \in DOMAIN f \ {k} |-> f[x]]
Empty == [x \in {} |-> <<>>]

CondA ==
    [name |-> <<"A">>, gtf_annotation |-> <<"a.gtf">>, genome_seq |-> <<"g.fa">>,
     mask_file |-> <<"m.gtf">>, bowtie2_index |-> <<"idx">>,
     left_reads |-> << <<"l1.fq">>, <<"l2.fq">> >>,
     right_reads |-> << <<"r1.fq">>, <<"r2.fq">> >>]

\* The second condition of the group; dev = <<key, how>> makes it deviate from
\* the first on one consensus key ("differs": other value, "null": the key
\* is given without a value, "missing": no such key).
CondB(dev) ==
    LET same == [CondA EXCEPT !.name = <<"B">>]
    IN  IF dev[2] = "differs" THEN [same EXCEPT ![dev[1]] = <<"other.", dev[1]>>]
        ELSE IF dev[2] = "null" THEN [same EXCEPT ![dev[1]] = PyNone]
        ELSE IF dev[2] = "missing" THEN Without(same, dev[1])
        ELSE same

Deviations ==
    {<<"none", "none">>} \cup (ConsensusKeys \X {"differs", "null", "missing"})

LiteralOutDir(stage) == <<"/", "x", "/", stage, ".out", "/">>

StageKeys(stage) ==
    IF stage = "tophat" THEN <<"G">>
    ELSE IF stage = "cufflinks" THEN <<"GTF-guide", "frag-bias-correct", "mask-file">>
    ELSE IF stage = "cuffmerge" THEN <<"ref-gtf", "ref-sequence">>
    ELSE <<"labels", "frag-bias-correct", "mask-file">>

PositionalNames(stage) ==
    IF stage = "tophat" THEN {"bowtie2_index", "left_reads", "right_reads"}
    ELSE IF stage = "cufflinks" THEN {"accepted_hits"}
    ELSE IF stage = "cuffmerge" THEN {"assembly_list"}
    ELSE {"transcripts_gtf", "sample_bams"}

\* One <stage>_options subtree: the option keys in document order, their
\* values, and the positional_args sub-mapping.
ProgYargs(stage, oDyn, optDyn, posDyn, hasMask, hasP) ==
    LET dyn == SelectSeq(StageKeys(stage), LAMBDA k : k # "mask-file" \/ hasMask)
        keys == <<"o">> \o (IF hasP THEN <<"p">> ELSE <<>>) \o dyn \o <<"positional_args">>
    IN  [order |-> keys,
         val |-> [k \in {keys[i] : i \in 1..Len(keys)} \ {"positional_args"} |->
                    IF k = "o" THEN (IF oDyn THEN FROM ELSE LiteralOutDir(stage))
                    ELSE IF k = "p" THEN <<"6">>
                    ELSE IF optDyn THEN FROM ELSE <<"literal.", k>>],
         pos |-> [n \in PositionalNames(stage) |->
                    IF posDyn THEN FROM ELSE <<"literal.", n>>]]

Yargs(base, dev, oDyn, optDyn, posDyn, hasMask, hasP) ==
    [base_dir |-> base,
     bowtie_indexes_dir |-> <<"/", "bt", "/">>,
     condition_queue |-> <<CondA, CondB(dev)>>,
     groups |-> [g \in {"g1"} |-> <<CondA, CondB(dev)>>],
     options |-> [s \in {Stages[i] : i \in 1..4} |->
                    ProgYargs(s, oDyn, optDyn, posDyn, hasMask, hasP)]]

BaseDirs == {<<"/", "b", "/">>}

\* The configurations explored.  Configs: the all-dynamic configuration and
\* those that differ from it in a single switch, the conditions of the group
\* agreeing.  GroupConfigs: the all-dynamic configuration with every deviation
\* of the second condition.
Configs ==
    {Yargs(b, <<"none", "none">>, sw # 1, sw # 2, sw # 3, sw # 4, sw # 5) :
        b \in BaseDirs, sw \in 0..5}

GroupConfigs ==
    {Yargs(b, dev, TRUE, TRUE, TRUE, TRUE, TRUE) : b \in BaseDirs, dev \in Deviations}

\* Configurations whose condition names vary: plain names and names that
\* contain a stage name; a third condition, named like the first two joined
\* by '.', is a group of its own
NamePairs ==
    { << <<"A">>, <<"B">> >>,
      << <<"cuffdiff", "2">>, <<"B">> >>,
      << <<"A">>, <<"tophat", "1">> >>,
      << <<"cuffmerge", "x">>, <<"cufflinks", "y">> >> }

NamedYargs(base, names) ==
    LET y == Yargs(base, <<"none", "none">>, TRUE, TRUE, TRUE, TRUE, TRUE)
        a == [CondA EXCEPT !.name = names[1]]
        b == [CondA EXCEPT !.name = names[2]]
        c == [CondA EXCEPT !.name = names[1] \o <<".">> \o names[2]]
    IN  [y EXCEPT !.condition_queue = <<a, b, c>>,
                  !.groups = ("g1" :> <<a, b>>) @@ ("g2" :> <<c>>)]

NameConfigs == {NamedYargs(b, names) : b \in BaseDirs, names \in NamePairs}

\* Configurations whose literal options (p and the stage's own options) all
\* have the given value: booleans, a yaml null, and strings, among them the
\* strings that spell the booleans
OptionValues == {PyTrue, PyFalse, PyNone, <<"6">>, <<"True">>, <<"False">>}

ValuedYargs(base, v) ==
    LET y == Yargs(base, <<"none", "none">>, TRUE, FALSE, TRUE, TRUE, TRUE)
    IN  [y EXCEPT !.options =
            [s \in DOMAIN y.options |->
                [y.options[s] EXCEPT !.val =
                    [k \in DOMAIN y.options[s].val |->
                        IF k = "o" THEN y.options[s].val[k] ELSE v]]]]

ValueConfigs == {ValuedYargs(b, v) : b \in BaseDirs, v \in OptionValues}

\* The driver's fixed stage order: per-condition stages for every condition,
\* then the group stages for every group.
CallQueue ==
    << [stage |-> "tophat", cond |-> 1, group |-> ""],
       [stage |-> "tophat", cond |-> 2, group |-> ""],
       [stage |-> "cufflinks", cond |-> 1, group |-> ""],
       [stage |-> "cufflinks", cond |-> 2, group |-> ""],
       [stage |-> "cuffmerge", cond |-> 0, group |-> "g1"],
       [stage |-> "cuffdiff", cond |-> 0, group |-> "g1"] >>

(***************************************************************************)
(* BaseCall: identifiers, output directory, option map, serialisation      *)
(***************************************************************************)
\* self._conditions after set_call_id: the group's list, or the one condition
Conditions(job) ==
    IF job.stage \in GroupStages THEN yargs.groups[job.group]
    ELSE <<yargs.condition_queue[job.cond]>>

Names(conds) == [i \in 1..Len(conds) |-> conds[i].name]

set_call_id(job) ==
    IF job.stage \in GroupStages
    THEN <<job.stage, "_">> \o Join(Names(Conditions(job)), <<".">>)
    ELSE <<job.stage, "_">> \o Conditions(job)[1].name

build_out_dir_path(call_id) == Rstrip(yargs.base_dir) \o <<"/">> \o call_id

\* Variant: the output directory of the call's own record, when there is one
get_out_dir_FromRecord(job) ==
    LET option == yargs.options[job.stage].val["o"]
        call_id == set_call_id(job)
    IN  IF call_id \in DOMAIN call_records THEN call_records[call_id]
        ELSE IF option = FROM THEN build_out_dir_path(call_id) ELSE option

get_out_dir(job) ==
    LET option == yargs.options[job.stage].val["o"]
    IN  IF option = FROM THEN build_out_dir_path(set_call_id(job)) ELSE option

\* _flag_out_dir: the path the output directory is renamed to
FlaggedPath(out_dir) ==
    LET toks == Tail(Split(Abspath(out_dir)))
    IN  <<"/">> \o Join(SubSeq(toks, 1, Len(toks) - 1), <<"/">>)
            \o <<"/", "FAILED.">> \o toks[Len(toks)]

DictSet(d, k, v) ==
    CHOOSE r \in {[table |-> PySetItem(x.table, k), val |-> (k :> v) @@ x.val] :
                    x \in {d}} : TRUE

\* The key tables init_opt_dict builds, for every document order of the
\* configurations: prog_yargs is a dict filled in document order, opt_dict a
\* defaultdict filled in prog_yargs.keys() order and then copied by dict().
OptTables ==
    [order \in {ProgYargs(Stages[i], TRUE, TRUE, TRUE, m, p).order :
                  i \in 1..4, m \in BOOLEAN, p \in BOOLEAN} |->
        PyCopy(PySetAll(PyEmpty(8), PyKeys(PySetAll(PyEmpty(8), order))))]

init_opt_dict(stage) ==
    LET py == yargs.options[stage]
        table == OptTables[py.order]
        prog_keys == PyKeys(table)
    IN  [table |-> table,
         val |-> [k \in {prog_keys[i] : i \in 1..Len(prog_keys)} |->
                    IF k = "positional_args" THEN PyFalse
                    ELSE IF py.val[k] # FROM THEN py.val[k] ELSE PyFalse]]

OneChar(opt) == opt \in {"o", "G", "p"}

RECURSIVE OptionTokens(_, _)
OptionTokens(keys, val) ==
    IF keys = <<>> THEN <<>>
    ELSE LET opt == Head(keys)
             flag == IF OneChar(opt) THEN <<"-", opt>> ELSE <<"--", opt>>
             opt_val_str == Str(val[opt])
         IN  (IF val[opt] = PyFalse THEN <<>>
              ELSE IF opt_val_str # <<"True">> THEN <<flag, opt_val_str>>
              ELSE <<flag>>)
             \o OptionTokens(Tail(keys), val)

\* Variant: options whose value is False are serialised like any other
RECURSIVE OptionTokens_EmitsFalse(_, _)
OptionTokens_EmitsFalse(keys, val) ==
    IF keys = <<>> THEN <<>>
    ELSE LET opt == Head(keys)
             flag == IF OneChar(opt) THEN <<"-", opt>> ELSE <<"--", opt>>
             opt_val_str == Str(val[opt])
         IN  (IF opt_val_str # <<"True">> THEN <<flag, opt_val_str>> ELSE <<flag>>)
             \o OptionTokens_EmitsFalse(Tail(keys), val)

construct_options_list_EmitsFalse(opt_dict) ==
    OptionTokens_EmitsFalse(PyKeys(opt_dict.table), opt_dict.val)

construct_options_list(opt_dict) == OptionTokens(PyKeys(opt_dict.table), opt_dict.val)

(***************************************************************************)
(* Results of a resolution step: err = "" on success, else the exception   *)
(***************************************************************************)
Ok(v) == [err |-> "", info |-> <<>>, val |-> v]
Raise(kind, info) == [err |-> kind, info |-> info, val |-> <<>>]

\* condition[key]
GetItem(condition, key) ==
    IF key \in DOMAIN condition THEN Ok(condition[key]) ELSE Raise("KeyError", <<key>>)

\* an option taken from the one condition of a per-sample stage
FromCondition(stage, opt, conds, key) ==
    LET option == yargs.options[stage].val[opt]
    IN  IF option = FROM THEN GetItem(conds[1], key) ELSE Ok(option)

\* set([c[key] for c in self._conditions]) with the len(...) == 1 check
Agree(conds, key, group_id) ==
    IF \E i \in 1..Len(conds) : key \notin DOMAIN conds[i] THEN Raise("KeyError", <<key>>)
    ELSE LET vals == {conds[i][key] : i \in 1..Len(conds)}
         IN  IF Cardinality(vals) = 1 THEN Ok(CHOOSE v \in vals : TRUE)
             ELSE Raise("InvalidFileFormatError", <<group_id>>)

\* CuffmergeCall.get_gtf_anno / get_genome, CuffdiffCall.get_genome
GroupOption(stage, opt, conds, key, group_id) ==
    LET option == yargs.options[stage].val[opt]
    IN  IF option = FROM THEN Agree(conds, key, group_id) ELSE Ok(option)

\* CufflinksCall.get_mask_file: a KeyError anywhere in the body gives False
cufflinks_get_mask_file(conds) ==
    LET val == yargs.options["cufflinks"].val
    IN  IF "mask-file" \notin DOMAIN val THEN Ok(PyFalse)
        ELSE IF val["mask-file"] # FROM THEN Ok(val["mask-file"])
        ELSE IF "mask_file" \in DOMAIN conds[1] THEN Ok(conds[1]["mask_file"])
        ELSE Ok(PyFalse)

\* CuffdiffCall.get_mask_file: a KeyError anywhere in the body gives False
cuffdiff_get_mask_file(conds, group_id) ==
    LET val == yargs.options["cuffdiff"].val
        agreed == Agree(conds, "mask_file", group_id)
    IN  IF "mask-file" \notin DOMAIN val THEN Ok(PyFalse)
        ELSE IF val["mask-file"] # FROM THEN Ok(val["mask-file"])
        ELSE IF agreed.err = "KeyError" THEN Ok(PyFalse)
        ELSE agreed

get_labels(conds) ==
    LET option == yargs.options["cuffdiff"].val["labels"]
    IN  IF option = FROM THEN Ok(Join(Names(conds), <<",">>)) ELSE Ok(option)

\* The dynamic options of a stage in the order its __init__ resolves and
\* stores them, each as <<option name, result>>.
DynamicOptions(job) ==
    LET s == job.stage
        conds == Conditions(job)
        g == job.group
    IN  IF s = "tophat" THEN
            << <<"G", FromCondition(s, "G", conds, "gtf_annotation")>> >>
        ELSE IF s = "cufflinks" THEN
            << <<"GTF-guide", FromCondition(s, "GTF-guide", conds, "gtf_annotation")>>,
               <<"frag-bias-correct", FromCondition(s, "frag-bias-correct", conds, "genome_seq")>>,
               <<"mask-file", cufflinks_get_mask_file(conds)>> >>
        ELSE IF s = "cuffmerge" THEN
            << <<"ref-gtf", GroupOption(s, "ref-gtf", conds, "gtf_annotation", g)>>,
               <<"ref-sequence", GroupOption(s, "ref-sequence", conds, "genome_seq", g)>> >>
        ELSE
            << <<"labels", get_labels(conds)>>,
               <<"mask-file", cuffdiff_get_mask_file(conds, g)>>,
               <<"frag-bias-correct", GroupOption(s, "frag-bias-correct", conds, "genome_seq", g)>> >>

\* index of the first step that raises, 0 if none does
FirstError(results) ==
    LET bad == {i \in 1..Len(results) : results[i].err # ""}
    IN  IF bad = {} THEN 0 ELSE CHOOSE i \in bad : \A j \in bad : i <= j

RECURSIVE StoreAll(_, _)
StoreAll(opt_dict, dyn) ==
    IF dyn = <<>> THEN opt_dict
    ELSE StoreAll(DictSet(opt_dict, Head(dyn)[1], Head(dyn)[2].val), Tail(dyn))

\* self.opt_dict once __init__ has stored 'o' and the dynamic options
OptDict(job) ==
    StoreAll(DictSet(init_opt_dict(job.stage), "o", get_out_dir(job)), DynamicOptions(job))

(***************************************************************************)
(* Upstream lookups: Call Record Store first, on-disk convention second    *)
(***************************************************************************)
PathExists(p) ==
    LET dir == Abspath(SubSeq(p, 1, Len(p) - 2))
    IN  dir \in DOMAIN disk /\ p[Len(p)] \in DOMAIN disk[dir]

\* Variant: the convention path is preferred to the record when it exists
UpstreamPath_DiskFirst(up_call_id, filename, mode) ==
    LET guess == Rstrip(yargs.base_dir) \o <<"/">> \o up_call_id \o <<"/", filename>>
    IN  IF PathExists(guess) \/ up_call_id \notin DOMAIN call_records
        THEN [id |-> up_call_id,
              src |-> IF PathExists(guess) THEN "disk"
                      ELSE IF mode = "analyze" THEN "missing" ELSE "deferred",
              path |-> guess]
        ELSE [id |-> up_call_id, src |-> "store",
              path |-> Rstrip(call_records[up_call_id]) \o <<"/", filename>>]

\* Variant: an absent file is fatal in every mode
UpstreamPath_Strict(up_call_id, filename, mode) ==
    IF up_call_id \in DOMAIN call_records
    THEN [id |-> up_call_id, src |-> "store",
          path |-> Rstrip(call_records[up_call_id]) \o <<"/", filename>>]
    ELSE LET guess == Rstrip(yargs.base_dir) \o <<"/">> \o up_call_id \o <<"/", filename>>
         IN  [id |-> up_call_id,
              src |-> IF PathExists(guess) THEN "disk" ELSE "missing",
              path |-> guess]

\* Variant: an absent file is tolerated in every mode
UpstreamPath_Lenient(up_call_id, filename, mode) ==
    IF up_call_id \in DOMAIN call_records
    THEN [id |-> up_call_id, src |-> "store",
          path |-> Rstrip(call_records[up_call_id]) \o <<"/", filename>>]
    ELSE LET guess == Rstrip(yargs.base_dir) \o <<"/">> \o up_call_id \o <<"/", filename>>
         IN  [id |-> up_call_id,
              src |-> IF PathExists(guess) THEN "disk" ELSE "deferred",
              path |-> guess]

\* get_bam_path, get_cuffGTF_path, get_cuffmerge_gtf share this body.
\* src: "store" (record found), "disk" (convention path exists), "deferred"
\* (absent, tolerated), "missing" (absent, MissingArgumentError).
UpstreamPath(up_call_id, filename, mode) ==
    IF up_call_id \in DOMAIN call_records
    THEN [id |-> up_call_id, src |-> "store",
          path |-> Rstrip(call_records[up_call_id]) \o <<"/", filename>>]
    ELSE LET guess == Rstrip(yargs.base_dir) \o <<"/">> \o up_call_id \o <<"/", filename>>
         IN  [id |-> up_call_id,
              src |-> IF PathExists(guess) THEN "disk"
                      ELSE IF mode = "analyze" THEN "missing" ELSE "deferred",
              path |-> guess]

cufflinks_get_bam_path(condition, mode) ==
    UpstreamPath(<<"tophat", "_">> \o condition.name, "accepted_hits.bam", mode)

get_cuffGTF_path(condition, mode) ==
    UpstreamPath(<<"cufflinks", "_">> \o condition.name, "transcripts.gtf", mode)

cuffdiff_get_bam_path(condition, mode) ==
    UpstreamPath(<<"tophat", "_">> \o condition.name, "accepted_hits.bam", mode)

get_cuffmerge_gtf(call_id, mode) ==
    UpstreamPath(Replace(call_id, "cuffdiff", "cuffmerge"), "merged.gtf", mode)

\* The lookups a constructor would make, in order, if none of them raised
PlannedLookups(job, mode) ==
    LET pos == yargs.options[job.stage].pos
        conds == Conditions(job)
    IN  IF job.stage = "cufflinks" THEN
            IF pos["accepted_hits"] = FROM
            THEN <<cufflinks_get_bam_path(conds[1], mode)>> ELSE <<>>
        ELSE IF job.stage = "cuffmerge" THEN
            IF pos["assembly_list"] = FROM
            THEN [i \in 1..Len(conds) |-> get_cuffGTF_path(conds[i], mode)] ELSE <<>>
        ELSE IF job.stage = "cuffdiff" THEN
            <<get_cuffmerge_gtf(set_call_id(job), mode)>> \o
            (IF pos["sample_bams"] = FROM
             THEN [i \in 1..Len(conds) |-> cuffdiff_get_bam_path(conds[i], mode)] ELSE <<>>)
        ELSE <<>>

\* Variant: an absent file never stops the constructor
FirstMissing_Never(lookups) == 0

FirstMissing(lookups) ==
    LET bad == {i \in 1..Len(lookups) : lookups[i].src = "missing"}
    IN  IF bad = {} THEN 0 ELSE CHOOSE i \in bad : \A j \in bad : i <= j

\* The lookups actually made: up to and including the first that raises
Lookups(job, mode) ==
    LET planned == PlannedLookups(job, mode)
        m == FirstMissing(planned)
    IN  IF m = 0 THEN planned ELSE SubSeq(planned, 1, m)

Paths(lookups) == [i \in 1..Len(lookups) |-> lookups[i].path]

ManifestPath(out_dir) == Rstrip(out_dir) \o <<"/", "assembly_list.txt">>

\* The positional tokens of a stage whose lookups all succeeded
Positionals(job, mode) ==
    LET pos == yargs.options[job.stage].pos
        c == Conditions(job)[1]
        found == Paths(Lookups(job, mode))
    IN  IF job.stage = "tophat" THEN
            << IF pos["bowtie2_index"] = FROM
               THEN Rstrip(yargs.bowtie_indexes_dir) \o <<"/">> \o c.bowtie2_index
               ELSE pos["bowtie2_index"],
               IF pos["left_reads"] = FROM THEN Join(c.left_reads, <<",">>)
               ELSE pos["left_reads"],
               IF pos["right_reads"] = FROM THEN Join(c.right_reads, <<",">>)
               ELSE pos["right_reads"] >>
        ELSE IF job.stage = "cufflinks" THEN
            << IF pos["accepted_hits"] = FROM THEN found[1] ELSE pos["accepted_hits"] >>
        ELSE IF job.stage = "cuffmerge" THEN
            << IF pos["assembly_list"] = FROM THEN Abspath(ManifestPath(get_out_dir(job)))
               ELSE pos["assembly_list"] >>
        ELSE
            << found[1],
               IF pos["sample_bams"] = FROM THEN Join(Tail(found), <<" ">>)
               ELSE pos["sample_bams"] >>

(***************************************************************************)
(* The constructors (TophatCall, CufflinksCall, CuffmergeCall,             *)
(* CuffdiffCall .__init__)                                                 *)
(***************************************************************************)
NoCall ==
    [state |-> "none", job |-> 0, mode |-> "", call_id |-> <<>>, out_dir |-> <<>>,
     arg_str |-> <<>>, positionals |-> <<>>, lookups |-> <<>>, err |-> "", info |-> <<>>,
     exc |-> "", registered |-> FALSE, failed |-> FALSE]

WritesManifest(job) ==
    job.stage = "cuffmerge" /\ yargs.options["cuffmerge"].pos["assembly_list"] = FROM

\* Variant: the manifest is kept in every mode
ManifestEffect_Keeps(out_dir, paths, mode) ==
    LET dir == Abspath(out_dir)
        old == IF dir \in DOMAIN disk THEN disk[dir] ELSE Empty
    IN  (dir :> (("assembly_list.txt" :> paths) @@ old)) @@ disk

\* get_cufflinks_gtfs on the filesystem: mkdirp, write the manifest, and in
\* dry_run mode shutil.rmtree(self.out_dir)
ManifestEffect(out_dir, paths, mode) ==
    LET dir == Abspath(out_dir)
        old == IF dir \in DOMAIN disk THEN disk[dir] ELSE Empty
        written == (dir :> (("assembly_list.txt" :> paths) @@ old)) @@ disk
    IN  IF mode = "dry_run" THEN Without(written, dir) ELSE written

WarningEntries(lookups) ==
    LET fallen == SelectSeq(lookups, LAMBDA l : l.src # "store")
    IN  [i \in 1..Len(fallen) |-> <<"warning", fallen[i].id>>]

\* The call object __init__ leaves behind, or the exception it raises
Constructed(k, mode) ==
    LET job == CallQueue[k]
        dyn == DynamicOptions(job)
        e == FirstError([i \in 1..Len(dyn) |-> dyn[i][2]])
        lookups == IF e = 0 THEN Lookups(job, mode) ELSE <<>>
        m == FirstMissing(lookups)
        base == [NoCall EXCEPT !.job = k, !.mode = mode, !.call_id = set_call_id(job),
                               !.out_dir = get_out_dir(job), !.lookups = lookups]
    IN  IF e # 0 THEN
            [base EXCEPT !.state = "failed", !.err = dyn[e][2].err, !.info = dyn[e][2].info]
        ELSE IF m # 0 THEN
            [base EXCEPT !.state = "failed", !.err = "MissingArgumentError",
                         !.info = lookups[m].path]
        ELSE
            [base EXCEPT !.state = "constructed",
                         !.positionals = Positionals(job, mode),
                         !.arg_str = Join(construct_options_list(OptDict(job))
                                            \o Positionals(job, mode), <<" ">>)]

\* init_log_file (open(..., 'w')) and the warnings log_msg appends.  logs
\* follows one log file at a time, that of the latest 'analyze' call: no
\* operation reads a log file, so the other files are not kept.
\* Variant: the log file is created and written in every mode
LogsAfterInit_AnyMode(call, mode) == (call.call_id :> WarningEntries(call.lookups))

LogsAfterInit(call, mode) ==
    IF mode = "analyze"
    THEN (call.call_id :> WarningEntries(call.lookups))
    ELSE logs

\* Variant: the constructor records the call in the Store itself
Construct_Registering(k) ==
    /\ ncalls < MaxCalls
    /\ cur.state \in {"none", "executed"}
    /\ k \in queue_pos..Len(CallQueue)
    /\ \E call \in {Constructed(k, run_mode)} :
           /\ cur' = call
           /\ logs' = LogsAfterInit(call, run_mode)
           /\ disk' = IF call.state = "constructed" /\ WritesManifest(CallQueue[k])
                      THEN ManifestEffect(call.out_dir, Paths(call.lookups), run_mode)
                      ELSE disk
           /\ last' = IF call.state = "constructed"
                      THEN [job |-> k, mode |-> run_mode, store |-> call_records,
                            arg_str |-> call.arg_str, n |-> ncalls + 1]
                      ELSE last
    /\ events' = <<>>
    /\ queue_pos' = k
    /\ ncalls' = ncalls + 1
    /\ call_records' = IF Constructed(k, run_mode).state = "constructed"
                       THEN (set_call_id(CallQueue[k]) :> get_out_dir(CallQueue[k]))
                                @@ call_records
                       ELSE call_records
    /\ UNCHANGED <<yargs, run_mode>>

\* Variant: the merge stage creates its directory and manifest with
\* whatever paths it has located, also when it then raises
Construct_EagerManifest(k) ==
    /\ ncalls < MaxCalls
    /\ cur.state \in {"none", "executed"}
    /\ k \in queue_pos..Len(CallQueue)
    /\ \E call \in {Constructed(k, run_mode)} :
           /\ cur' = call
           /\ logs' = LogsAfterInit(call, run_mode)
           /\ disk' = IF WritesManifest(CallQueue[k])
                      THEN ManifestEffect(call.out_dir, Paths(call.lookups), run_mode)
                      ELSE disk
           /\ last' = IF call.state = "constructed"
                      THEN [job |-> k, mode |-> run_mode, store |-> call_records,
                            arg_str |-> call.arg_str, n |-> ncalls + 1]
                      ELSE last
    /\ events' = <<>>
    /\ queue_pos' = k
    /\ ncalls' = ncalls + 1
    /\ UNCHANGED <<yargs, call_records, run_mode>>

Construct(k) ==
    /\ ncalls < MaxCalls
    /\ cur.state \in {"none", "executed"}
    /\ k \in queue_pos..Len(CallQueue)
    /\ \E call \in {Constructed(k, run_mode)} :
           /\ cur' = call
           /\ logs' = LogsAfterInit(call, run_mode)
           /\ disk' = IF call.state = "constructed" /\ WritesManifest(CallQueue[k])
                      THEN ManifestEffect(call.out_dir, Paths(call.lookups), run_mode)
                      ELSE disk
           /\ last' = IF call.state = "constructed"
                      THEN [job |-> k, mode |-> run_mode, store |-> call_records,
                            arg_str |-> call.arg_str, n |-> ncalls + 1]
                      ELSE last
    /\ events' = <<>>
    /\ queue_pos' = k
    /\ ncalls' = ncalls + 1
    /\ UNCHANGED <<yargs, call_records, run_mode>>

\* The driver records the constructed call object in yargs.call_records under
\* its call id, and then hands it to execute()
Register ==
    /\ cur.state = "constructed"
    /\ ~cur.registered
    /\ call_records' = (cur.call_id :> cur.out_dir) @@ call_records
    /\ cur' = [cur EXCEPT !.registered = TRUE]
    /\ UNCHANGED <<yargs, disk, logs, events, run_mode, queue_pos, last, ncalls>>

\* A new run of the driver on the same filesystem: a fresh, empty Store
NewRun ==
    /\ cur.state # "none"
    /\ ncalls < MaxCalls
    /\ \E m \in Modes : run_mode' = m
    /\ call_records' = Empty
    /\ cur' = NoCall
    /\ events' = <<>>
    /\ queue_pos' = 1
    /\ UNCHANGED <<yargs, disk, logs, last, ncalls>>

(***************************************************************************)
(* BaseCall.execute                                                        *)
(***************************************************************************)
Steps == <<"notify_start", "log_start", "run", "log_end", "notify_end">>

StepIndex(step) ==
    IF step = "none" THEN Len(Steps) + 1 ELSE CHOOSE i \in 1..Len(Steps) : Steps[i] = step

\* What can go wrong in the try block: which step raises, what it raises, and
\* whether the external program had created its output directory by then.
\* SystemCallError comes from runExternalApp only, an interrupt arrives while
\* the external program runs, and another exception (mail, log file,
\* launching the program) can come from any step.
Faults ==
    {[step |-> "none", kind |-> "none", made_dir |-> TRUE]}
    \cup {[step |-> "run", kind |-> k, made_dir |-> d] :
            k \in {"SystemCallError", "KeyboardInterrupt"}, d \in BOOLEAN}
    \cup {[step |-> Steps[i], kind |-> "Other", made_dir |-> d] :
            i \in 1..Len(Steps), d \in BOOLEAN}

Feasible(f) ==
    \/ f.step = "run"
    \/ f.made_dir = (StepIndex(f.step) > StepIndex("run"))

ProgramOutput(stage) ==
    IF stage = "tophat" THEN "accepted_hits.bam"
    ELSE IF stage = "cufflinks" THEN "transcripts.gtf"
    ELSE IF stage = "cuffmerge" THEN "merged.gtf"
    ELSE "gene_exp.diff"

\* The external program on the filesystem: it creates its -o directory and,
\* unless it fails, its output file
runExternalApp(d, out_dir, stage, succeeds, made_dir) ==
    LET dir == Abspath(out_dir)
        old == IF dir \in DOMAIN d THEN d[dir] ELSE Empty
    IN  IF succeeds THEN (dir :> ((ProgramOutput(stage) :> <<>>) @@ old)) @@ d
        ELSE IF made_dir THEN (dir :> old) @@ d
        ELSE d

\* os.rename(src, dst) of a directory succeeds when src exists and dst does
\* not exist or is an empty directory; otherwise it raises OSError
CanRename(d, src, dst) ==
    /\ src \in DOMAIN d
    /\ dst \notin DOMAIN d \/ DOMAIN d[dst] = {}

\* Variant: the directory is copied, the original stays
Rename_KeepsSource(d, src, dst) == (dst :> d[src]) @@ d

Rename(d, src, dst) == (dst :> d[src]) @@ Without(d, src)

\* Python 2: KeyboardInterrupt derives from BaseException, the others from
\* Exception
CaughtByExceptException(kind) == kind \in {"SystemCallError", "Other"}

\* Variant: the directory is renamed but self.out_dir keeps the old path
Handler_KeepsOutDir(call, d, lg, ev, kind) ==
    LET src == Abspath(call.out_dir)
        dst == FlaggedPath(call.out_dir)
        lg2 == [lg EXCEPT ![call.call_id] = Append(@, <<"end", "traceback">>)]
        ev2 == Append(ev, "log_end")
    IN  IF ~CanRename(d, src, dst) THEN
            [cur |-> [call EXCEPT !.state = "raised", !.err = "OSError", !.exc = kind,
                                  !.failed = TRUE],
             disk |-> d, logs |-> lg2, events |-> ev2]
        ELSE
            [cur |-> [call EXCEPT !.state = IF kind = "SystemCallError" THEN "executed"
                                             ELSE "raised",
                                  !.err = IF kind = "SystemCallError" THEN "" ELSE kind,
                                  !.exc = kind, !.failed = TRUE],
             disk |-> Rename(d, src, dst), logs |-> lg2,
             events |-> ev2 \o <<"flag", "notify_error">>]

\* The 'except Exception' handler: log_end, _flag_out_dir, notification,
\* and the re-raise of an unclassified exception
Handler(call, d, lg, ev, kind) ==
    LET src == Abspath(call.out_dir)
        dst == FlaggedPath(call.out_dir)
        lg2 == [lg EXCEPT ![call.call_id] = Append(@, <<"end", "traceback">>)]
        ev2 == Append(ev, "log_end")
    IN  IF ~CanRename(d, src, dst) THEN
            [cur |-> [call EXCEPT !.state = "raised", !.err = "OSError", !.exc = kind,
                                  !.failed = TRUE],
             disk |-> d, logs |-> lg2, events |-> ev2]
        ELSE
            [cur |-> [call EXCEPT !.state = IF kind = "SystemCallError" THEN "executed"
                                             ELSE "raised",
                                  !.err = IF kind = "SystemCallError" THEN "" ELSE kind,
                                  !.exc = kind, !.out_dir = dst, !.failed = TRUE],
             disk |-> Rename(d, src, dst), logs |-> lg2,
             events |-> ev2 \o <<"flag", "notify_error">>]

\* execute() in 'analyze' mode under fault f
Analyze(call, f) ==
    LET n == StepIndex(f.step)
        stage == CallQueue[call.job].stage
        ev == (IF n > 1 THEN <<"notify_start">> ELSE <<>>)
              \o (IF n > 2 THEN <<"log_start">> ELSE <<>>)
              \o (IF n >= 3 THEN <<"run">> ELSE <<>>)
              \o (IF n > 4 THEN <<"log_end">> ELSE <<>>)
              \o (IF n > 5 THEN <<"notify_end">> ELSE <<>>)
        lg == [logs EXCEPT ![call.call_id] =
                 @ \o (IF n > 2 THEN << <<"start", call.call_id>> >> ELSE <<>>)
                   \o (IF n > 4 THEN << <<"end", "stderr">> >> ELSE <<>>)]
        d == IF n >= 3 THEN runExternalApp(disk, call.out_dir, stage, n > 3, f.made_dir)
             ELSE disk
    IN  IF f.step = "none" THEN
            [cur |-> [call EXCEPT !.state = "executed"], disk |-> d, logs |-> lg, events |-> ev]
        ELSE IF CaughtByExceptException(f.kind) THEN Handler(call, d, lg, ev, f.kind)
        ELSE
            [cur |-> [call EXCEPT !.state = "raised", !.err = f.kind, !.exc = f.kind,
                                  !.failed = TRUE],
             disk |-> d, logs |-> lg, events |-> ev]

\* build_qsub reads self.opt_dict['p'] before it writes the script
Qsub(call) ==
    IF "p" \in DOMAIN OptDict(CallQueue[call.job]).val
    THEN [cur |-> [call EXCEPT !.state = "executed"], disk |-> disk, logs |-> logs,
          events |-> <<"qsub">>]
    ELSE [cur |-> [call EXCEPT !.state = "raised", !.err = "KeyError", !.info = <<"p">>],
          disk |-> disk, logs |-> logs, events |-> <<>>]

DryRun(call) ==
    [cur |-> [call EXCEPT !.state = "executed"], disk |-> disk, logs |-> logs,
     events |-> <<"print">>]

execute(f) ==
    /\ cur.state = "constructed"
    /\ cur.registered
    /\ Feasible(f)
    /\ cur.mode = "analyze" \/ f.step = "none"
    /\ \E r \in {IF cur.mode = "analyze" THEN Analyze(cur, f)
                ELSE IF cur.mode = "dry_run" THEN DryRun(cur)
                ELSE Qsub(cur)} :
           /\ cur' = r.cur
           /\ disk' = r.disk
           /\ logs' = r.logs
           /\ events' = r.events
           \* the Store holds the call object itself: its out_dir changes with it
           /\ call_records' = [call_records EXCEPT ![cur.call_id] = r.cur.out_dir]
    /\ UNCHANGED <<yargs, run_mode, queue_pos, last, ncalls>>

(***************************************************************************)
(* Specification                                                           *)
(***************************************************************************)
\* What an earlier, complete run of the pipeline left under base_dir
CompletedRun ==
    [dir \in {Abspath(<<"/", "b", "/">> \o set_call_id(CallQueue[k])) : k \in 1..Len(CallQueue)} |->
        LET k == CHOOSE j \in 1..Len(CallQueue) :
                    Abspath(<<"/", "b", "/">> \o set_call_id(CallQueue[j])) = dir
        IN  (ProgramOutput(CallQueue[k].stage) :> <<>>)
            @@ (IF CallQueue[k].stage = "cuffmerge"
                THEN ("assembly_list.txt" :> <<>>) ELSE Empty)]

InitWith(configs) ==
    /\ yargs \in configs
    /\ run_mode \in Modes
    /\ call_records = Empty
    /\ disk \in {Empty, CompletedRun}
    /\ logs = Empty
    /\ cur = NoCall
    /\ events = <<>>
    /\ queue_pos = 1
    /\ last = [job |-> 0, mode |-> "", store |-> Empty, arg_str |-> <<>>, n |-> 0]
    /\ ncalls = 0

Next ==
    \/ \E k \in 1..Len(CallQueue) : Construct(k)
    \/ Register
    \/ \E f \in Faults : execute(f)
    \/ NewRun

Init == InitWith(Configs)

Spec == Init /\ [][Next]_vars

\* The same program started on the configurations whose conditions deviate
InitGroups == InitWith(GroupConfigs)

SpecGroups == InitGroups /\ [][Next]_vars

\* The same program started on the configurations whose condition names vary
InitNames == InitWith(NameConfigs)

SpecNames == InitNames /\ [][Next]_vars

\* The same program started on the configurations whose option values vary
InitValues == InitWith(ValueConfigs)

SpecValues == InitValues /\ [][Next]_vars

(***************************************************************************)
(* Properties                                                              *)
(***************************************************************************)
\* A step that runs a constructor, whether it returns a call or raises
ConstructStep == ncalls' = ncalls + 1

\* The upstream artifacts a stage resolves dynamically, in resolution order:
\* the expected upstream call identifier and the known output file name
Artifacts(job) ==
    LET pos == yargs.options[job.stage].pos
        names == Names(Conditions(job))
        bams == [i \in 1..Len(names) |->
                   [id |-> <<"tophat", "_">> \o names[i], file |-> "accepted_hits.bam"]]
    IN  IF job.stage = "cufflinks" /\ pos["accepted_hits"] = FROM THEN <<bams[1]>>
        ELSE IF job.stage = "cuffmerge" /\ pos["assembly_list"] = FROM THEN
            [i \in 1..Len(names) |->
               [id |-> <<"cufflinks", "_">> \o names[i], file |-> "transcripts.gtf"]]
        ELSE IF job.stage = "cuffdiff" THEN
            << [id |-> <<"cuffmerge", "_">> \o Join(names, <<".">>), file |-> "merged.gtf"] >>
            \o (IF pos["sample_bams"] = FROM THEN bams ELSE <<>>)
        ELSE <<>>

\* <base_dir>/<expected upstream call id>/<known filename>
ConventionPath(a) == Rstrip(yargs.base_dir) \o <<"/">> \o a.id \o <<"/", a.file>>

\* The call's positional arguments (for the merge stage, the manifest its
\* positional argument names) carry the paths its lookups returned
Carries(call, d) ==
    LET job == CallQueue[call.job]
        pos == yargs.options[job.stage].pos
        found == Paths(call.lookups)
    IN  IF job.stage = "cufflinks" THEN
            pos["accepted_hits"] = FROM => call.positionals = <<found[1]>>
        ELSE IF job.stage = "cuffmerge" THEN
            pos["assembly_list"] = FROM /\ call.mode # "dry_run" =>
                /\ call.positionals = <<Abspath(ManifestPath(call.out_dir))>>
                /\ d[Abspath(call.out_dir)]["assembly_list.txt"] = found
        ELSE IF job.stage = "cuffdiff" THEN
            /\ call.positionals[1] = found[1]
            /\ pos["sample_bams"] = FROM => call.positionals[2] = Join(Tail(found), <<" ">>)
        ELSE TRUE

Entries(log) == {log[i] : i \in 1..Len(log)}

FirstGone(job) ==
    LET want == Artifacts(job)
        gone == {i \in 1..Len(want) : /\ want[i].id \notin DOMAIN call_records
                                      /\ ~PathExists(ConventionPath(want[i]))}
    IN  IF gone = {} THEN 0 ELSE CHOOSE i \in gone : \A j \in gone : i <= j

\* C2: in analyze mode, when an upstream record is absent from the Store and
\* its convention path does not exist on disk, the constructor raises
\* MissingArgumentError naming that path (the first such path in resolution
\* order); nothing is launched or written for the call, then or later.
C2_MissingUpstreamFailsConstruction ==
    /\ [](cur.state = "failed" => events = <<>>)
    /\ [][ConstructStep /\ run_mode = "analyze" /\ FirstGone(CallQueue[cur'.job]) # 0 =>
            /\ cur'.state = "failed"
            /\ cur'.err = "MissingArgumentError"
            /\ cur'.info = ConventionPath(Artifacts(CallQueue[cur'.job])
                                            [FirstGone(CallQueue[cur'.job])])
            /\ events' = <<>>
            /\ disk' = disk
         ]_vars

\* C2 happens: a comparison call fails in analyze mode on an alignment that
\* is neither recorded nor on disk, after its merged annotation was found
C2_Witness ==
    /\ cur.state = "failed"
    /\ cur.mode = "analyze"
    /\ cur.err = "MissingArgumentError"
    /\ CallQueue[cur.job].stage = "cuffdiff"
    /\ Len(cur.lookups) = 2
    /\ cur.info = <<"/", "b", "/", "tophat", "_", "A", "/", "accepted_hits.bam">>
    /\ ~PathExists(cur.info)

\* The artifacts of the job that have no record in the Store
Unrecorded(job) ==
    {i \in 1..Len(Artifacts(job)) : Artifacts(job)[i].id \notin DOMAIN call_records}

\* C3: when upstream records are absent from the Store and, for each of
\* them, the convention path exists on disk or the mode is dry_run or
\* qsub_script, the constructor returns a call and resolves each of those
\* artifacts to exactly its convention path.
C3_FallsBackToConventionPath ==
    [][ConstructStep =>
         LET job == CallQueue[cur'.job]
             want == Artifacts(job)
         IN  /\ Unrecorded(job) # {}
             /\ \A i \in Unrecorded(job) :
                   PathExists(ConventionPath(want[i])) \/ run_mode \in {"dry_run", "qsub_script"}
             => /\ cur'.state = "constructed"
                /\ Len(cur'.lookups) = Len(want)
                /\ \A i \in Unrecorded(job) : cur'.lookups[i].path = ConventionPath(want[i])
                /\ Carries(cur', disk')
       ]_vars

\* C3 happens: a dry-run comparison call is assembled with no upstream
\* record, one artifact present on disk and another absent
C3_Witness ==
    /\ cur.state = "constructed"
    /\ cur.mode = "dry_run"
    /\ ~cur.registered
    /\ CallQueue[cur.job].stage = "cuffdiff"
    /\ Len(cur.lookups) = 3
    /\ Unrecorded(CallQueue[cur.job]) = {1, 2, 3}
    /\ \E i, j \in 1..3 : /\ PathExists(cur.lookups[i].path)
                          /\ ~PathExists(cur.lookups[j].path)
    /\ cur.positionals[1] = <<"/", "b", "/", "cuffmerge", "_", "A", ".", "B", "/", "merged.gtf">>

HandlerTrail == <<"log_end", "flag", "notify_error">>

EndsWith(seq, tail) ==
    /\ Len(seq) >= Len(tail)
    /\ SubSeq(seq, Len(seq) - Len(tail) + 1, Len(seq)) = tail

\* The call's output directory has been renamed to FAILED.<original name>
Flagged(call, d) ==
    /\ call.out_dir = FlaggedPath(get_out_dir(CallQueue[call.job]))
    /\ call.out_dir \in DOMAIN d
    /\ Abspath(get_out_dir(CallQueue[call.job])) \notin DOMAIN d

\* C5 as stated: when the external program fails (SystemCallError) in
\* analyze mode, the output directory is renamed to FAILED.<name> and
\* execute() returns normally, whatever the state of the filesystem.
C5_ProgramFailureIsContained ==
    cur.exc = "SystemCallError" =>
        /\ cur.state = "executed"
        /\ cur.err = ""
        /\ Flagged(cur, disk)

\* C6 as stated: an interrupt during execute() in analyze mode is caught:
\* the error is logged, the directory flagged, the notification sent, and
\* execute() returns normally.
C6_InterruptIsContained ==
    cur.exc = "KeyboardInterrupt" =>
        /\ cur.state = "executed"
        /\ cur.err = ""
        /\ EndsWith(events, HandlerTrail)
        /\ <<"end", "traceback">> \in Entries(logs[cur.call_id])

\* C7 as stated: any other exception raised in the analyze sequence is
\* logged, the directory is flagged, a notification is sent, and then that
\* same exception is re-raised.
C7_OtherExceptionIsReraised ==
    cur.exc = "Other" =>
        /\ cur.state = "raised"
        /\ cur.err = "Other"
        /\ EndsWith(events, HandlerTrail)
        /\ Flagged(cur, disk)
        /\ <<"end", "traceback">> \in Entries(logs[cur.call_id])

\* C8 as stated: every failing run of execute() in analyze mode leaves both
\* a log entry in the call's log file and an email notification.
C8_FailureIsLoggedAndMailed ==
    cur.failed =>
        /\ <<"end", "traceback">> \in Entries(logs[cur.call_id])
        /\ "notify_error" \in {events[i] : i \in 1..Len(events)}

\* The condition keys a group stage resolves by consensus
ConsensusRequired(stage) ==
    IF stage = "cuffmerge" THEN {"gtf_annotation", "genome_seq"}
    ELSE IF stage = "cuffdiff" THEN {"genome_seq", "mask_file"}
    ELSE {}

\* The conditions of the job's group do not all give the same value for a
\* key the stage resolves by consensus; a condition without the key gives
\* no value
Disagree(job) ==
    \E key \in ConsensusRequired(job.stage) :
        \E i, j \in 1..Len(Conditions(job)) :
            LET ci == Conditions(job)[i]
                cj == Conditions(job)[j]
            IN  \/ (key \in DOMAIN ci) # (key \in DOMAIN cj)
                \/ key \in DOMAIN ci /\ key \in DOMAIN cj /\ ci[key] # cj[key]

\* C9 as stated: when the conditions of a group disagree on a key a group
\* stage resolves by consensus, also when one condition has no value for
\* it, the constructor raises the configuration-disagreement error
\* (InvalidFileFormatError) naming the group.
C9_DisagreementIsRejected ==
    cur.state # "none" /\ Disagree(CallQueue[cur.job]) =>
        /\ cur.state = "failed"
        /\ cur.err = "InvalidFileFormatError"
        /\ cur.info = <<CallQueue[cur.job].group>>

SameTarget(stage, job) == [job EXCEPT !.stage = stage]

\* The upstream stage calls whose records the job's constructor looks up, in
\* resolution order
UpstreamJobs(job) ==
    LET pos == yargs.options[job.stage].pos
        n == Len(Conditions(job))
        per(stage) == [i \in 1..n |-> [stage |-> stage, cond |-> i, group |-> ""]]
    IN  IF job.stage = "cufflinks" /\ pos["accepted_hits"] = FROM
        THEN <<SameTarget("tophat", job)>>
        ELSE IF job.stage = "cuffmerge" /\ pos["assembly_list"] = FROM THEN per("cufflinks")
        ELSE IF job.stage = "cuffdiff" THEN
            <<SameTarget("cuffmerge", job)>>
            \o (IF pos["sample_bams"] = FROM THEN per("tophat") ELSE <<>>)
        ELSE <<>>

\* C11 as stated: the identifier under which a constructor looks up an
\* upstream record is the call identifier set_call_id gives the upstream
\* stage call for the same condition or group, whatever the condition names.
C11_LookupIdIsUpstreamCallId ==
    cur.state # "none" =>
        \A i \in 1..Len(cur.lookups) :
            cur.lookups[i].id = set_call_id(UpstreamJobs(CallQueue[cur.job])[i])

\* The stage calls a configuration gives rise to: one per condition for the
\* per-condition stages, one per group for the group stages
JobsOf(stage) ==
    IF stage \in GroupStages
    THEN {[stage |-> stage, cond |-> 0, group |-> g] : g \in DOMAIN yargs.groups}
    ELSE {[stage |-> stage, cond |-> i, group |-> ""] : i \in 1..Len(yargs.condition_queue)}

\* C12 as stated: two stage calls of the same stage for two different
\* conditions, or two different groups, never have the same call identifier
\* (nor, with a dynamic -o, the same output directory).
C12_CallIdsAreUnique ==
    \A i \in 1..Len(Stages) :
        \A j1, j2 \in JobsOf(Stages[i]) :
            j1 # j2 => /\ set_call_id(j1) # set_call_id(j2)
                       /\ build_out_dir_path(set_call_id(j1)) # build_out_dir_path(set_call_id(j2))

\* A step in which the driver records a call under the identifier
RegisterStepOf(id) == cur'.registered /\ ~cur.registered /\ cur'.call_id = id

\* A step in which execute() renames the output directory of the call
FlagStepOf(id) ==
    /\ cur.call_id = id
    /\ "flag" \in {events'[i] : i \in 1..Len(events')}
    /\ "flag" \notin {events[i] : i \in 1..Len(events)}

RECURSIVE WordsFrom(_, _, _)
WordsFrom(s, word, acc) ==
    IF s = <<>> THEN Append(acc, word)
    ELSE IF Head(s) = " " THEN WordsFrom(Tail(s), <<>>, Append(acc, word))
    ELSE WordsFrom(Tail(s), Append(word, Head(s)), acc)

Words(s) == WordsFrom(s, <<>>, <<>>)

IsFlag(word) == word # <<>> /\ word[1] \in {"-", "--"}

FlagOf(opt) == IF OneChar(opt) THEN <<"-", opt>> ELSE <<"--", opt>>

\* The options that must not show: those of the call's option map whose
\* value is False, the declared options the constructor left unresolved,
\* and positional_args
Hidden(job) ==
    UNION {{k \in DOMAIN val : val[k] = PyFalse} : val \in {OptDict(job).val}}
    \cup {"positional_args"}

\* C14: in the argument string of a constructed call the words of the
\* positional arguments come last, everything before them is flags and flag
\* values (it starts with a flag and no two values follow each other), and
\* no option whose value is False, nor positional_args, shows as a flag.
C14_FlagsFirstFalseOmitted ==
    cur.state = "constructed" =>
        \A words \in {Words(cur.arg_str)}, posw \in {Words(Join(cur.positionals, <<" ">>))} :
          \A nflag \in {Len(words) - Len(posw)}, hidden \in {Hidden(CallQueue[cur.job])} :
            /\ nflag >= 2
            /\ SubSeq(words, nflag + 1, Len(words)) = posw
            /\ \A i \in 1..Len(posw) : ~IsFlag(posw[i])
            /\ IsFlag(words[1])
            /\ \A i \in 1..(nflag - 1) : IsFlag(words[i]) \/ IsFlag(words[i + 1])
            /\ \A k \in hidden :
                   \A i \in 1..Len(words) :
                       words[i] # FlagOf(k)

\* C14 happens: an assembly call is constructed from a configuration that
\* declares no mask-file, so that its option map holds mask-file = False
C14_Witness ==
    /\ cur.state = "constructed"
    /\ CallQueue[cur.job].stage = "cufflinks"
    /\ "mask-file" \notin DOMAIN yargs.options["cufflinks"].val
    /\ "mask-file" \in Hidden(CallQueue[cur.job])
    /\ Len(Words(cur.arg_str)) > Len(cur.positionals)

\* The position of the option's flag among the words (0: it does not show)
FlagIndex(words, opt) ==
    LET at == {i \in 1..Len(words) : words[i] = FlagOf(opt)}
    IN  IF at = {} THEN 0 ELSE CHOOSE i \in at : \A j \in at : i <= j

\* C15 as stated: every option of the option map whose value is not False
\* shows as '-x' (one character) or '--name'; a True value gives the flag
\* alone, every other value the flag immediately followed by str(value).
C15_OptionsAreSerialized ==
    cur.state \in {"constructed", "executed", "raised"} =>
        LET words == Words(cur.arg_str)
            nflag == Len(words) - Len(Words(Join(cur.positionals, <<" ">>)))
            val == OptDict(CallQueue[cur.job]).val
        IN  \A k \in DOMAIN val :
                val[k] # PyFalse =>
                    LET i == FlagIndex(SubSeq(words, 1, nflag), k)
                    IN  /\ i # 0
                        /\ IF val[k] = PyTrue
                           THEN i = nflag \/ IsFlag(words[i + 1])
                           ELSE i < nflag /\ words[i + 1] = Str(val[k])

\* The positional arguments of a stage in the order its constructor appends
\* them
PositionalOrder(stage) ==
    IF stage = "tophat" THEN <<"bowtie2_index", "left_reads", "right_reads">>
    ELSE IF stage = "cufflinks" THEN <<"accepted_hits">>
    ELSE IF stage = "cuffmerge" THEN <<"assembly_list">>
    ELSE <<"transcripts_gtf", "sample_bams">>

\* C16 as stated: a positional argument for which the configuration gives a
\* literal resolves to exactly that literal, and when all positionals of the
\* stage are literal the constructor makes no Store lookup and no disk check
\* (so it cannot fail on a missing upstream artifact); this includes
\* transcripts_gtf of the comparison stage.
C16_LiteralPositionalsAreUsed ==
    cur.state # "none" =>
        LET stage == CallQueue[cur.job].stage
            pos == yargs.options[stage].pos
            order == PositionalOrder(stage)
        IN  /\ (\A i \in 1..Len(order) : pos[order[i]] # FROM) =>
                  cur.lookups = <<>> /\ cur.state # "failed"
            /\ cur.state # "failed" =>
                  \A i \in 1..Len(order) :
                      pos[order[i]] # FROM => cur.positionals[i] = pos[order[i]]

\* Nothing is on disk d2 that was not on disk d1: no directory or file is
\* created or written
NothingWritten(d1, d2) ==
    \A dir \in DOMAIN d2 : dir \in DOMAIN d1 /\ d2[dir] = d1[dir]

\* C17: in dry_run mode no step of a call (constructor, registration,
\* execute) runs the external program, creates or writes a log file, sends a
\* notification or leaves a new file on disk; execute() only prints.
C17_DryRunOnlyPrints ==
    [][run_mode = "dry_run" =>
          /\ logs' = logs
          /\ events' \in {<<>>, <<"print">>}
          /\ NothingWritten(disk, disk')
          /\ cur.state = "constructed" /\ cur'.state \notin {"constructed", "none"} =>
                 cur'.state = "executed" /\ events' = <<"print">> /\ disk' = disk
      ]_vars

\* C17 happens: a dry-run merge call has been executed; it printed, there is
\* no log file and its output directory is not on disk
C17_Witness ==
    /\ run_mode = "dry_run"
    /\ cur.state = "executed"
    /\ cur.mode = "dry_run"
    /\ CallQueue[cur.job].stage = "cuffmerge"
    /\ events = <<"print">>
    /\ cur.call_id \notin DOMAIN logs
    /\ Abspath(cur.out_dir) \notin DOMAIN disk

IsPrefix(s, t) == Len(s) <= Len(t) /\ SubSeq(t, 1, Len(s)) = s

\* C18 as stated: the log file of a call is append-only: whatever a step
\* does (constructor, execute, a second construction under the same
\* identifier later in the run or in a new run), the content the file had
\* is still there, at its start.
C18_LogIsAppendOnly ==
    [][\A id \in DOMAIN logs \cap DOMAIN logs' : IsPrefix(logs[id], logs'[id])]_vars

\* The path at which the upstream assembly of the i-th condition of the
\* group is located: from its record if there is one, else by convention
Located(job, i) ==
    LET a == Artifacts(job)[i]
    IN  IF a.id \in DOMAIN call_records
        THEN Rstrip(call_records[a.id]) \o <<"/", a.file>>
        ELSE ConventionPath(a)

\* C19: when the merge stage is constructed with a dynamic assembly_list,
\* its only positional argument is the path of <out_dir>/assembly_list.txt;
\* unless the mode is dry_run that file holds one line per condition of the
\* group, in group order, each the located upstream assembly path; in
\* dry_run mode the manifest (with the output directory) is gone when the
\* constructor returns.
C19_MergeManifest ==
    [][/\ ConstructStep
       /\ cur'.state = "constructed"
       /\ CallQueue[cur'.job].stage = "cuffmerge"
       /\ yargs.options["cuffmerge"].pos["assembly_list"] = FROM
       => LET job == CallQueue[cur'.job]
              dir == Abspath(cur'.out_dir)
              n == Len(Conditions(job))
          IN  /\ cur'.positionals = <<dir \o <<"/", "assembly_list.txt">> >>
              /\ IF run_mode = "dry_run"
                 THEN dir \notin DOMAIN disk'
                 ELSE /\ dir \in DOMAIN disk'
                      /\ "assembly_list.txt" \in DOMAIN disk'[dir]
                      /\ Len(disk'[dir]["assembly_list.txt"]) = n
                      /\ \A i \in 1..n :
                           disk'[dir]["assembly_list.txt"][i] = Located(job, i)
      ]_vars

\* C19 happens: a merge call constructed in analyze mode has written a
\* two-line manifest naming the assemblies of A and B, found on disk
C19_Witness ==
    /\ cur.state = "constructed"
    /\ cur.mode = "analyze"
    /\ CallQueue[cur.job].stage = "cuffmerge"
    /\ Abspath(cur.out_dir) \in DOMAIN disk
    /\ "assembly_list.txt" \in DOMAIN disk[Abspath(cur.out_dir)]
    /\ disk[Abspath(cur.out_dir)]["assembly_list.txt"] =
         << <<"/", "b", "/", "cufflinks", "_", "A", "/", "transcripts.gtf">>,
            <<"/", "b", "/", "cufflinks", "_", "B", "/", "transcripts.gtf">> >>
    /\ cur.positionals = << Abspath(cur.out_dir) \o <<"/", "assembly_list.txt">> >>

\* C20 as stated: in qsub_script mode execute() on any constructed call,
\* whatever options its configuration declares, writes the script and
\* returns; it runs no program, writes no log and sends no notification.
C20_QsubScriptIsWritten ==
    cur.mode = "qsub_script" /\ cur.state \in {"executed", "raised"} =>
        /\ cur.state = "executed"
        /\ cur.err = ""
        /\ events = <<"qsub">>

\* execute: self.cmd_string, the program name and the argument string
cmd_string(call) == <<CallQueue[call.job].stage, " ">> \o call.arg_str

\* The alignment stage is configured with output directory, annotation,
\* index and both read lists dynamic, and no other option
AllDynamicTophat ==
    LET py == yargs.options["tophat"]
    IN  /\ DOMAIN py.val = {"o", "G"}
        /\ \A k \in DOMAIN py.val : py.val[k] = FROM
        /\ \A n \in DOMAIN py.pos : py.pos[n] = FROM

\* C21 as stated: for the all-dynamic alignment stage of a condition named
\* N the command is 'tophat -o <base_dir>/tophat_N -G <condition gtf>
\* <bt_index> <left_reads> <right_reads>', the tokens in exactly that order,
\* each read list the condition's read files comma-joined.
C21_TophatCommand ==
    /\ cur.state = "constructed"
    /\ CallQueue[cur.job].stage = "tophat"
    /\ AllDynamicTophat
    => LET c == Conditions(CallQueue[cur.job])[1]
       IN  cmd_string(cur) =
             Join(<< <<"tophat">>,
                     <<"-", "o">>, Rstrip(yargs.base_dir) \o <<"/", "tophat", "_">> \o c.name,
                     <<"-", "G">>, c.gtf_annotation,
                     Rstrip(yargs.bowtie_indexes_dir) \o <<"/">> \o c.bowtie2_index,
                     Join(c.left_reads, <<",">>),
                     Join(c.right_reads, <<",">>) >>, <<" ">>)

\* A step in which execute() runs on the current call, to its return or to
\* the exception that leaves it
ExecuteStep == cur.state = "constructed" /\ cur'.state \in {"executed", "raised"}

\* What a step appended to the log file of the current call
Appended == SubSeq(logs'[cur.call_id], Len(logs[cur.call_id]) + 1, Len(logs'[cur.call_id]))

\* The positions of the start ('[start <id>]') or end ('[end <id>]')
\* markers among log entries
Markers(entries, kind) == {i \in 1..Len(entries) : entries[i][1] = kind}

\* C22 as stated: in analyze mode a run of execute() in which no step fails
\* does, in this order and once each: start notification, start marker,
\* one invocation of the external program, end entry, completion
\* notification; and every run of execute(), failing or not, puts at most
\* one start marker and exactly one end marker in the log, the start marker
\* (if any) first.
C22_ExecuteSequence ==
    [][ExecuteStep /\ cur.mode = "analyze" =>
         \A added \in {Appended} :
            /\ ~cur'.failed =>
                 /\ events' = Steps
                 /\ added = << <<"start", cur.call_id>>, <<"end", "stderr">> >>
            /\ Cardinality(Markers(added, "start")) <= 1
            /\ Cardinality(Markers(added, "end")) = 1
            /\ \A i \in Markers(added, "start"), j \in Markers(added, "end") : i < j
      ]_vars

\* The known output file a lookup path ends with
FileOf(path) == path[Len(path)]

\* C23: whenever execute() invokes the external program, the call is in
\* analyze mode, has its call identifier, its output directory and a
\* complete argument string (the serialised options followed by every
\* positional of the stage, nothing left as 'from_conditions'), every
\* upstream lookup of the stage was made, its path is the one the call
\* carries, and that path either came from a record the Store held when the
\* call was constructed or names a file on disk.
C23_OnlyResolvedCallsRun ==
    [][ExecuteStep /\ "run" \in {events'[i] : i \in 1..Len(events')} =>
         \A job \in {CallQueue[cur.job]} :
            /\ cur.mode = "analyze"
            /\ cur.call_id = set_call_id(job) /\ cur.call_id # <<>>
            /\ cur.out_dir = get_out_dir(job) /\ cur.out_dir # <<>>
            /\ Len(cur.positionals) = Len(PositionalOrder(job.stage))
            /\ cur.arg_str = Join(construct_options_list(OptDict(job)) \o cur.positionals,
                                  <<" ">>)
            /\ \A i \in 1..Len(cur.arg_str) : cur.arg_str[i] # "from_conditions"
            /\ Len(cur.lookups) = Len(Artifacts(job))
            /\ Carries(cur, disk)
            /\ last.n = ncalls
            /\ \A i \in 1..Len(cur.lookups) :
                 LET l == cur.lookups[i]
                 IN  \/ /\ l.id \in DOMAIN last.store
                        /\ l.path = Rstrip(last.store[l.id]) \o <<"/", FileOf(l.path)>>
                     \/ PathExists(l.path)
      ]_vars

\* C23 happens: a comparison call has run in analyze mode whose inputs came
\* partly from a record of this run and partly from files an earlier run
\* left on disk
C23_Witness ==
    /\ cur.state = "executed"
    /\ cur.mode = "analyze"
    /\ ~cur.failed
    /\ "run" \in {events[i] : i \in 1..Len(events)}
    /\ CallQueue[cur.job].stage = "cuffdiff"
    /\ {cur.lookups[i].src : i \in 1..Len(cur.lookups)} = {"store", "disk"}

\* Every directory of disk d1, and every file in it but the merge manifest,
\* is on disk d2 with the same content
Preserved(d1, d2) ==
    \A dir \in DOMAIN d1 :
        /\ dir \in DOMAIN d2
        /\ \A file \in DOMAIN d1[dir] \ {"assembly_list.txt"} :
               file \in DOMAIN d2[dir] /\ d2[dir][file] = d1[dir][file]

\* C24 as stated: constructing a merge call in dry_run mode leaves the
\* filesystem as it found it: an output directory that existed with content
\* (merged.gtf of an earlier run) and every file in it other than the
\* manifest are still there, unchanged, when the constructor returns.
C24_DryRunMergeKeepsDisk ==
    [][/\ ConstructStep
       /\ run_mode = "dry_run"
       /\ CallQueue[cur'.job].stage = "cuffmerge"
       /\ cur'.state = "constructed"
       => Preserved(disk, disk')
      ]_vars

\* The path names a directory flagged by _flag_out_dir
IsFlaggedDir(path) == \E i \in 1..Len(path) : path[i] = "FAILED."

\* C25: the output directory a call holds follows the directory: when a
\* failed execute() has renamed it, the call's out_dir is the FAILED.<name>
\* path, the directory is there and no longer under its original name;
\* otherwise out_dir is unchanged; and a downstream constructor that finds
\* a record with a renamed directory in the Store resolves its input to the
\* file under the FAILED.<name> directory, not under the original name.
C25_OutDirFollowsDirectory ==
    [][/\ ExecuteStep =>
            IF "flag" \in {events'[i] : i \in 1..Len(events')}
            THEN /\ cur'.out_dir = FlaggedPath(cur.out_dir)
                 /\ cur'.out_dir \in DOMAIN disk'
                 /\ Abspath(cur.out_dir) \notin DOMAIN disk'
            ELSE /\ cur'.out_dir = cur.out_dir
                 /\ \A dir \in DOMAIN disk' \ {Abspath(cur.out_dir)} :
                        dir \in DOMAIN disk /\ disk'[dir] = disk[dir]
       /\ ConstructStep =>
            \A i \in 1..Len(cur'.lookups) :
                LET l == cur'.lookups[i]
                IN  l.id \in DOMAIN call_records /\ IsFlaggedDir(call_records[l.id]) =>
                      /\ l.path = call_records[l.id] \o <<"/", FileOf(l.path)>>
                      /\ l.path # Rstrip(yargs.base_dir) \o <<"/">> \o l.id
                                    \o <<"/", FileOf(l.path)>>
                      /\ cur'.state = "constructed" => Carries(cur', disk')
      ]_vars

\* C25 happens: a comparison call is constructed after the alignment call
\* of condition A has failed, and takes A's alignment from the renamed
\* directory
C25_Witness ==
    /\ cur.state = "constructed"
    /\ CallQueue[cur.job].stage = "cuffdiff"
    /\ Len(cur.lookups) = 3
    /\ cur.lookups[2].src = "store"
    /\ cur.lookups[2].path = <<"/", "b", "/", "FAILED.", "tophat", "_", "A", "/", "accepted_hits.bam">>
    /\ <<"/", "b", "/", "FAILED.", "tophat", "_", "A">> \in DOMAIN disk
    /\ <<"/", "b", "/", "tophat", "_", "A">> \notin DOMAIN disk
    /\ Len(cur.positionals) = 2
    /\ SubSeq(cur.positionals[2], 1, Len(cur.lookups[2].path)) = cur.lookups[2].path

\* C26: when the constructor of a merge call raises (the conditions
\* disagree, a condition lacks a key, or an upstream assembly is missing)
\* it has created neither the output directory nor assembly_list.txt: the
\* filesystem is as it was; and whenever a merge constructor does change
\* the filesystem, it has passed both consensus checks and located the
\* assembly of every condition of the group.
C26_FailedMergeWritesNothing ==
    [][ConstructStep /\ CallQueue[cur'.job].stage = "cuffmerge" =>
         \A job \in {CallQueue[cur'.job]} :
            /\ cur'.state = "failed" =>
                 /\ cur'.err \in {"InvalidFileFormatError", "KeyError", "MissingArgumentError"}
                 /\ disk' = disk
            /\ disk' # disk =>
                 /\ cur'.state = "constructed"
                 /\ ~Disagree(job)
                 /\ Len(cur'.lookups) = Len(Conditions(job))
                 /\ \A i \in 1..Len(cur'.lookups) : cur'.lookups[i].src # "missing"
      ]_vars

\* C26 happens: in analyze mode a merge constructor has raised on a missing
\* assembly after both consensus checks passed, and neither its output
\* directory nor a manifest is on disk
C26_Witness ==
    /\ cur.state = "failed"
    /\ cur.mode = "analyze"
    /\ CallQueue[cur.job].stage = "cuffmerge"
    /\ cur.err = "MissingArgumentError"
    /\ ~Disagree(CallQueue[cur.job])
    /\ cur.lookups # <<>>
    /\ Abspath(cur.out_dir) \notin DOMAIN disk
====
